---- MODULE Spec2Model ----
(***************************************************************************)
(* Model of notebook.py: the reconciliation of a questionnaire export with *)
(* the per-participant event-log documents.  Text tokens are sequences of  *)
(* one-character strings, so that startswith, split, replace and int()     *)
(* are computed as Python computes them.                                   *)
(***************************************************************************)
EXTENDS Integers, Sequences, FiniteSets, TLC

(***************************************************************************)
(* Bounds of the model.                                                    *)
(***************************************************************************)
MaxMarkers == 4
MaxLatencyMarkers == 2
MaxDupMarkers == 3
MaxRows == 2
MaxRepeatingCols == 13

(***************************************************************************)
(* String literals of the program.                                         *)
(***************************************************************************)
condition_advance_bar == <<"c", "o", "n", "d", "i", "t", "i", "o", "n", "_", "a", "d", "v", "a", "n", "c", "e", "|">>
boxblock_start == <<"b", "o", "x", "b", "l", "o", "c", "k", "_", "s", "t", "a", "r", "t">>
practice_boxblock_start == <<"p", "r", "a", "c", "t", "i", "c", "e", "_", "b", "o", "x", "b", "l", "o", "c", "k", "_", "s", "t", "a", "r", "t">>
boxblock_stop == <<"b", "o", "x", "b", "l", "o", "c", "k", "_", "s", "t", "o", "p">>
practice_boxblock_stop == <<"p", "r", "a", "c", "t", "i", "c", "e", "_", "b", "o", "x", "b", "l", "o", "c", "k", "_", "s", "t", "o", "p">>
boxblock_end == <<"b", "o", "x", "b", "l", "o", "c", "k", "_", "e", "n", "d">>
block_moved == <<"b", "l", "o", "c", "k", "_", "m", "o", "v", "e", "d">>
ms == <<"m", "s">>
bar == <<"|">>

start_tokens == {boxblock_start, practice_boxblock_start}
stop_tokens == {boxblock_stop, practice_boxblock_stop, boxblock_end}

ignored_participants == {4}

None == [none |-> TRUE]

(***************************************************************************)
(* Python string operations.                                               *)
(***************************************************************************)
Max(a, b) == IF a >= b THEN a ELSE b

\* str.startswith(prefix)
StartsWith(s, prefix) ==
    /\ Len(s) >= Len(prefix)
    /\ SubSeq(s, 1, Len(prefix)) = prefix

\* str.split(sep) for a one-character separator: k separators give k+1
\* fields, empty fields included.
RECURSIVE SplitFrom(_, _, _, _)
SplitFrom(s, sep, i, field) ==
    IF i > Len(s) THEN <<field>>
    ELSE IF s[i] = sep THEN <<field>> \o SplitFrom(s, sep, i + 1, <<>>)
    ELSE SplitFrom(s, sep, i + 1, Append(field, s[i]))

Split(s, sep) == SplitFrom(s, sep, 1, <<>>)

\* str.replace(old, ""): one left-to-right pass that drops every
\* non-overlapping occurrence of old.
RECURSIVE RemoveFrom(_, _, _)
RemoveFrom(s, old, i) ==
    IF i > Len(s) THEN <<>>
    ELSE IF i + Len(old) - 1 <= Len(s) /\ SubSeq(s, i, i + Len(old) - 1) = old
         THEN RemoveFrom(s, old, i + Len(old))
         ELSE <<s[i]>> \o RemoveFrom(s, old, i + 1)

Remove(s, old) == RemoveFrom(s, old, 1)

Digits == {"0", "1", "2", "3", "4", "5", "6", "7", "8", "9"}

DigitValue(c) ==
    CASE c = "0" -> 0 [] c = "1" -> 1 [] c = "2" -> 2 [] c = "3" -> 3
      [] c = "4" -> 4 [] c = "5" -> 5 [] c = "6" -> 6 [] c = "7" -> 7
      [] c = "8" -> 8 [] c = "9" -> 9

\* str.strip() of blanks
RECURSIVE Strip(_)
Strip(s) ==
    IF s = <<>> THEN s
    ELSE IF s[1] = " " THEN Strip(Tail(s))
    ELSE IF s[Len(s)] = " " THEN Strip(SubSeq(s, 1, Len(s) - 1))
    ELSE s

\* The digit part of an int() literal: digits, with single underscores
\* allowed between two digits.
IsDigitString(s) ==
    /\ s # <<>>
    /\ \A k \in 1..Len(s) :
          \/ s[k] \in Digits
          \/ /\ s[k] = "_"
             /\ k > 1 /\ k < Len(s)
             /\ s[k - 1] \in Digits /\ s[k + 1] \in Digits

\* Variant: the digits are accumulated in base 8.
RECURSIVE DigitsValueBase8(_, _)
DigitsValueBase8(s, acc) ==
    IF s = <<>> THEN acc
    ELSE IF s[1] = "_" THEN DigitsValueBase8(Tail(s), acc)
    ELSE DigitsValueBase8(Tail(s), 8 * acc + DigitValue(s[1]))

RECURSIVE DigitsValue(_, _)
DigitsValue(s, acc) ==
    IF s = <<>> THEN acc
    ELSE IF s[1] = "_" THEN DigitsValue(Tail(s), acc)
    ELSE DigitsValue(Tail(s), 10 * acc + DigitValue(s[1]))

\* int(s), base 10: surrounding blanks are stripped, one optional sign,
\* then the digit part.  ok = FALSE stands for the ValueError int() raises.
ParseInt(s) ==
    LET t == Strip(s)
        signed == t # <<>> /\ t[1] \in {"+", "-"}
        body == IF signed THEN Tail(t) ELSE t
    IN  IF IsDigitString(body)
        THEN [ok |-> TRUE,
              value |-> IF signed /\ t[1] = "-" THEN 0 - DigitsValue(body, 0)
                        ELSE DigitsValue(body, 0)]
        ELSE [ok |-> FALSE, value |-> 0]


(***************************************************************************)
(* Column schema of the questionnaire.  A column name is its text and the  *)
(* numeric suffix pandas appends to a repeated name (0: no suffix).        *)
(***************************************************************************)
Col(text, suffix) == [text |-> text, suffix |-> suffix]

static_cols ==
    << Col("$submission_id", 0), Col("$created", 0),
       Col("Participant number", 0), Col("What is your gender", 0),
       Col("How old are you?", 0), Col("What is your dominant hand?", 0),
       Col("How experienced are you with robotic systems?", 0),
       Col("$answer_time_ms", 0) >>

repeating_questions ==
    << "Did you experience delays between your actions and the robot&#39;s movements?",
       "How difficult was it to perform the task?",
       "I felt like I was controlling the movement of the robot",
       "It felt like the robot was part of my body" >>

Range(f) == {f[k] : k \in DOMAIN f}

\* [col for col in all_cols if col not in static_cols]
NotStatic(col) == col \notin Range(static_cols)
repeating_cols_of(cols) == SelectSeq(cols, NotStatic)

\* len(repeating_cols) // len(repeating_questions)
NumRoundsOf(cols) == Len(repeating_cols_of(cols)) \div Len(repeating_questions)

(***************************************************************************)
(* Event-log documents.                                                    *)
(***************************************************************************)
Stream(name, time_series) == [info |-> [name |-> name], time_series |-> time_series]
Document(streams) == [status |-> "ok", streams |-> streams]
MissingFile == [status |-> "missing", streams |-> <<>>]
UnparsableFile == [status |-> "unparsable", streams |-> <<>>]
Marker(token) == <<token>>

\* Variant: the last stream of that name (a lookup without the break).
LastNamed(streams, name) ==
    IF \E k \in 1..Len(streams) : streams[k].info.name = name
    THEN streams[CHOOSE k \in 1..Len(streams) :
                    /\ streams[k].info.name = name
                    /\ \A j \in (k + 1)..Len(streams) : streams[j].info.name # name]
    ELSE None

\* next((stream for stream in streams if stream["info"]["name"] == name), None)
\* and the for/break lookup: the first stream of that name in document order.
FirstNamed(streams, name) ==
    IF \E k \in 1..Len(streams) : streams[k].info.name = name
    THEN streams[CHOOSE k \in 1..Len(streams) :
                    /\ streams[k].info.name = name
                    /\ \A j \in 1..(k - 1) : streams[j].info.name # name]
    ELSE None

(***************************************************************************)
(* Latency Extractor: the body of the loop over LatencyMarkers.            *)
(* appended: the marker adds value to latencies_by_round; raised: int()    *)
(* raises ValueError.                                                      *)
(***************************************************************************)
ExtractLatency(marker_str) ==
    IF StartsWith(marker_str, condition_advance_bar)
    THEN LET parts == Split(marker_str, "|")
         IN  IF Len(parts) >= 3
             THEN LET latency_ms == ParseInt(Remove(parts[3], ms))
                  IN  [appended |-> latency_ms.ok, raised |-> ~latency_ms.ok,
                       value |-> latency_ms.value, literal |-> Remove(parts[3], ms)]
             ELSE [appended |-> FALSE, raised |-> FALSE, value |-> 0, literal |-> <<>>]
    ELSE [appended |-> FALSE, raised |-> FALSE, value |-> 0, literal |-> <<>>]

(***************************************************************************)
(* Round Segmenter: the body of the loop over ExpMarkers, on the triple    *)
(* (blocks_moved_by_round, current_round_blocks, in_boxblock).             *)
(***************************************************************************)
SegmenterState(blocks, current, inside) ==
    [blocks_moved_by_round |-> blocks, current_round_blocks |-> current,
     in_boxblock |-> inside]

\* Variant: boxblock_end is not in the stop vocabulary.
SegmentMarkerWithoutEnd(st, marker_str) ==
    IF marker_str \in start_tokens
    THEN SegmenterState(
             IF st.in_boxblock /\ marker_str = boxblock_start
             THEN Append(st.blocks_moved_by_round, st.current_round_blocks)
             ELSE st.blocks_moved_by_round,
             0, TRUE)
    ELSE IF marker_str \in {boxblock_stop, practice_boxblock_stop}
    THEN IF st.in_boxblock
         THEN SegmenterState(Append(st.blocks_moved_by_round, st.current_round_blocks),
                             0, FALSE)
         ELSE st
    ELSE IF marker_str = block_moved /\ st.in_boxblock
    THEN SegmenterState(st.blocks_moved_by_round, st.current_round_blocks + 1, TRUE)
    ELSE st

\* Variant: block_moved is counted whether or not a session is open.
SegmentMarkerCountsOutside(st, marker_str) ==
    IF marker_str \in start_tokens
    THEN SegmenterState(
             IF st.in_boxblock /\ marker_str = boxblock_start
             THEN Append(st.blocks_moved_by_round, st.current_round_blocks)
             ELSE st.blocks_moved_by_round,
             0, TRUE)
    ELSE IF marker_str \in stop_tokens
    THEN IF st.in_boxblock
         THEN SegmenterState(Append(st.blocks_moved_by_round, st.current_round_blocks),
                             0, FALSE)
         ELSE st
    ELSE IF marker_str = block_moved
    THEN SegmenterState(st.blocks_moved_by_round, st.current_round_blocks + 1,
                        st.in_boxblock)
    ELSE st

\* Variant: any start token flushes the open session.
SegmentMarkerFlushesAnyStart(st, marker_str) ==
    IF marker_str \in start_tokens
    THEN SegmenterState(
             IF st.in_boxblock
             THEN Append(st.blocks_moved_by_round, st.current_round_blocks)
             ELSE st.blocks_moved_by_round,
             0, TRUE)
    ELSE IF marker_str \in stop_tokens
    THEN IF st.in_boxblock
         THEN SegmenterState(Append(st.blocks_moved_by_round, st.current_round_blocks),
                             0, FALSE)
         ELSE st
    ELSE IF marker_str = block_moved /\ st.in_boxblock
    THEN SegmenterState(st.blocks_moved_by_round, st.current_round_blocks + 1, TRUE)
    ELSE st

\* Variant: a start token does not reset the running count.
SegmentMarkerKeepsCountOnStart(st, marker_str) ==
    IF marker_str \in start_tokens
    THEN SegmenterState(
             IF st.in_boxblock /\ marker_str = boxblock_start
             THEN Append(st.blocks_moved_by_round, st.current_round_blocks)
             ELSE st.blocks_moved_by_round,
             st.current_round_blocks, TRUE)
    ELSE IF marker_str \in stop_tokens
    THEN IF st.in_boxblock
         THEN SegmenterState(Append(st.blocks_moved_by_round, st.current_round_blocks),
                             0, FALSE)
         ELSE st
    ELSE IF marker_str = block_moved /\ st.in_boxblock
    THEN SegmenterState(st.blocks_moved_by_round, st.current_round_blocks + 1, TRUE)
    ELSE st

\* Variant: a stop token flushes whether or not a session is open.
SegmentMarkerFlushesOutside(st, marker_str) ==
    IF marker_str \in start_tokens
    THEN SegmenterState(
             IF st.in_boxblock /\ marker_str = boxblock_start
             THEN Append(st.blocks_moved_by_round, st.current_round_blocks)
             ELSE st.blocks_moved_by_round,
             0, TRUE)
    ELSE IF marker_str \in stop_tokens
    THEN IF TRUE
         THEN SegmenterState(Append(st.blocks_moved_by_round, st.current_round_blocks),
                             0, FALSE)
         ELSE st
    ELSE IF marker_str = block_moved /\ st.in_boxblock
    THEN SegmenterState(st.blocks_moved_by_round, st.current_round_blocks + 1, TRUE)
    ELSE st

\* Variant: a stop token does not reset the running count.
SegmentMarkerKeepsCountOnStop(st, marker_str) ==
    IF marker_str \in start_tokens
    THEN SegmenterState(
             IF st.in_boxblock /\ marker_str = boxblock_start
             THEN Append(st.blocks_moved_by_round, st.current_round_blocks)
             ELSE st.blocks_moved_by_round,
             0, TRUE)
    ELSE IF marker_str \in stop_tokens
    THEN IF st.in_boxblock
         THEN SegmenterState(Append(st.blocks_moved_by_round, st.current_round_blocks),
                             st.current_round_blocks, FALSE)
         ELSE st
    ELSE IF marker_str = block_moved /\ st.in_boxblock
    THEN SegmenterState(st.blocks_moved_by_round, st.current_round_blocks + 1, TRUE)
    ELSE st

SegmentMarker(st, marker_str) ==
    IF marker_str \in start_tokens
    THEN SegmenterState(
             IF st.in_boxblock /\ marker_str = boxblock_start
             THEN Append(st.blocks_moved_by_round, st.current_round_blocks)
             ELSE st.blocks_moved_by_round,
             0, TRUE)
    ELSE IF marker_str \in stop_tokens
    THEN IF st.in_boxblock
         THEN SegmenterState(Append(st.blocks_moved_by_round, st.current_round_blocks),
                             0, FALSE)
         ELSE st
    ELSE IF marker_str = block_moved /\ st.in_boxblock
    THEN SegmenterState(st.blocks_moved_by_round, st.current_round_blocks + 1, TRUE)
    ELSE st

\* Variant: the sequence is brought to length n exactly, trimming the excess.
PadOrTrimBlocks(blocks, n) ==
    IF Len(blocks) < n THEN blocks \o [k \in 1..(n - Len(blocks)) |-> 0]
    ELSE SubSeq(blocks, 1, n)

\* while len(blocks_moved_by_round) < num_rounds: blocks_moved_by_round.append(0)
RECURSIVE PadBlocks(_, _)
PadBlocks(blocks, n) ==
    IF Len(blocks) < n THEN PadBlocks(Append(blocks, 0), n) ELSE blocks

(***************************************************************************)
(* Round Reconciler: for round_idx in range(num_rounds).  round_idx is the *)
(* 0-based Python index; sequences here are 1-based.                       *)
(***************************************************************************)
\* Variant: the presence tests are off by one (<= instead of <), so the
\* first missing entry is read from the previous round.
AnswerRoundOffByOne(round_idx, latencies, blocks) ==
    [round_number |-> round_idx + 1,
     latency_applied |-> IF round_idx < Len(latencies) THEN latencies[round_idx + 1]
                         ELSE IF round_idx = Len(latencies) /\ round_idx > 0
                              THEN latencies[round_idx] ELSE 0,
     blocks_moved |-> IF round_idx < Len(blocks) THEN blocks[round_idx + 1]
                      ELSE IF round_idx = Len(blocks) /\ round_idx > 0
                           THEN blocks[round_idx] ELSE 0]

AnswerRound(round_idx, latencies, blocks) ==
    [round_number |-> round_idx + 1,
     latency_applied |-> IF round_idx < Len(latencies)
                         THEN latencies[round_idx + 1] ELSE 0,
     blocks_moved |-> IF round_idx < Len(blocks)
                      THEN blocks[round_idx + 1] ELSE 0]

RECURSIVE BuildRounds(_, _, _, _)
BuildRounds(round_idx, n, latencies, blocks) ==
    IF round_idx >= n THEN <<>>
    ELSE <<AnswerRound(round_idx, latencies, blocks)>>
         \o BuildRounds(round_idx + 1, n, latencies, blocks)

Participant(number, rnds) == [participant_number |-> number, rounds |-> rnds]

(***************************************************************************)
(* Errors that leave the loop.                                             *)
(***************************************************************************)
Error(type, text, args) == [type |-> type, text |-> text, args |-> args]

LatencyMarkersNotFound(number) ==
    Error("ValueError", "LatencyMarkers stream not found for participant {}", <<number>>)

ExpMarkersNotFound(number) ==
    Error("ValueError", "No ExpMarkers stream found", <<>>)


(***************************************************************************)
(* State.  The names are the notebook's module-level names; files is the   *)
(* data directory (participant number -> document), pc the position in the *)
(* notebook, row_idx the position of the row iterator and marker_idx the   *)
(* position of the running marker loop.  A name not yet bound holds None   *)
(* or the empty sequence.                                                  *)
(***************************************************************************)
VARIABLES all_cols, questionnaire_df, files, num_rounds, participants,
          row_idx, pc, participant_number, data, latency_markers_stream,
          latencies_by_round, exp_markers_stream, blocks_moved_by_round,
          current_round_blocks, in_boxblock, marker_idx, rounds, error

vars == << all_cols, questionnaire_df, files, num_rounds, participants,
           row_idx, pc, participant_number, data, latency_markers_stream,
           latencies_by_round, exp_markers_stream, blocks_moved_by_round,
           current_round_blocks, in_boxblock, marker_idx, rounds, error >>

inputs == << all_cols, questionnaire_df, files >>
latency_vars == << latency_markers_stream, latencies_by_round >>
segmenter_vars == << exp_markers_stream, blocks_moved_by_round,
                     current_round_blocks, in_boxblock >>

(***************************************************************************)
(* Inputs.                                                                 *)
(***************************************************************************)
ParticipantNumbers == {1, 4, 7}

SeqsUpTo(S, n) == UNION {[1..k -> S] : k \in 0..n}

RECURSIVE Join(_, _)
Join(fields, sep) ==
    IF Len(fields) = 0 THEN <<>>
    ELSE IF Len(fields) = 1 THEN fields[1]
    ELSE fields[1] \o sep \o Join(Tail(fields), sep)

\* The columns of a questionnaire export with n repeating columns.
RepeatingColumn(j) == Col(repeating_questions[(j % 4) + 1], j \div 4)
ColumnsWith(n) == static_cols \o [j \in 1..n |-> RepeatingColumn(j - 1)]

Row(number) == [participant_number |-> number]

recording_started == <<"r", "e", "c">>
ExpTokens == start_tokens \cup stop_tokens \cup {block_moved, recording_started}

condition_advance == <<"c", "o", "n", "d", "i", "t", "i", "o", "n", "_", "a", "d", "v", "a", "n", "c", "e">>
Durations ==
    { <<"2", "0", "0", "m", "s">>, <<"0", "m", "s">>, <<"-", "5", "m", "s">>,
      <<"2", "0", "0">>, <<"m", "s">>, <<>>, <<"2", "m", "s", "0", "m", "s">>,
      <<"f", "a", "s", "t">>, <<"5", " ", "m", "s">>, <<"1", "_", "0", "m", "s">> }
LatencyTokens ==
    {Join(<<condition_advance, <<"r">>, d, <<"c">>>>, bar) : d \in Durations}
    \cup {Join(<<condition_advance, <<"r">>, d>>, bar) : d \in Durations}
    \cup { Join(<<condition_advance, <<"r">>>>, bar), condition_advance_bar,
           condition_advance, block_moved,
           Join(<<<<"x">> \o condition_advance, <<"r">>, <<"7", "m", "s">>, <<"c">>>>, bar) }

OneLatency == <<Marker(Join(<<condition_advance, <<"r">>, <<"2", "0", "0", "m", "s">>, <<"c">>>>, bar))>>
OneRound == <<Marker(boxblock_start), Marker(block_moved), Marker(boxblock_stop)>>
OpenRound == <<Marker(boxblock_start), Marker(block_moved)>>

MarkerSeqs(tokens, n) == {[k \in DOMAIN ts |-> Marker(ts[k])] : ts \in SeqsUpTo(tokens, n)}

BatchDocuments ==
    { MissingFile, UnparsableFile, Document(<<>>),
      Document(<<Stream("ExpMarkers", OneRound)>>),
      Document(<<Stream("LatencyMarkers", OneLatency)>>),
      Document(<<Stream("LatencyMarkers", OneLatency), Stream("ExpMarkers", OneRound)>>),
      Document(<<Stream("ExpMarkers", OpenRound), Stream("LatencyMarkers", <<>>)>>) }

SegmenterDocuments ==
    { Document(<<Stream("LatencyMarkers", OneLatency), Stream("ExpMarkers", ts)>>) :
        ts \in MarkerSeqs(ExpTokens, MaxMarkers) }

DupTokens == {boxblock_start, boxblock_stop, block_moved}
DuplicateDocuments ==
    { Document(<<Stream("ExpMarkers", a), Stream("LatencyMarkers", OneLatency),
                 Stream("ExpMarkers", b)>>) :
        a \in MarkerSeqs(DupTokens, MaxDupMarkers),
        b \in MarkerSeqs(DupTokens, MaxDupMarkers - 1) }
    \cup
    { Document(<<Stream("BoxBlockMarkers", OneRound), Stream("ExpMarkers", b),
                 Stream("LatencyMarkers", OneLatency), Stream("ExpMarkers", OpenRound)>>) :
        b \in MarkerSeqs(DupTokens, MaxDupMarkers) }

LatencyDocuments ==
    { Document(<<Stream("LatencyMarkers", ts), Stream("ExpMarkers", OneRound)>>) :
        ts \in MarkerSeqs(LatencyTokens, MaxLatencyMarkers) }

\* The documented round trip: two rounds, the first with two moved blocks
\* under 200 ms, the second empty under 0 ms.
ScenarioLatencyMarkers ==
    << Marker(Join(<< condition_advance, <<"r", "e", "p", "_", "1">>,
                      <<"2", "0", "0", "m", "s">>,
                      <<"c", "o", "n", "d", "i", "t", "i", "o", "n", "_", "1">> >>, bar)),
       Marker(Join(<< condition_advance, <<"r", "e", "p", "_", "2">>,
                      <<"0", "m", "s">>,
                      <<"c", "o", "n", "d", "i", "t", "i", "o", "n", "_", "2">> >>, bar)) >>
ScenarioExpMarkers ==
    << Marker(boxblock_start), Marker(block_moved), Marker(block_moved),
       Marker(boxblock_stop), Marker(boxblock_start), Marker(boxblock_stop) >>
ScenarioDocument ==
    Document(<< Stream("ExpMarkers", ScenarioExpMarkers),
                Stream("LatencyMarkers", ScenarioLatencyMarkers) >>)

DistinctRows(n) ==
    { [k \in DOMAIN s |-> Row(s[k])] :
        s \in {t \in SeqsUpTo(ParticipantNumbers, n) :
                 \A j, k \in DOMAIN t : j # k => t[j] # t[k]} }

Unbound ==
    /\ num_rounds = 0
    /\ participants = <<>>
    /\ row_idx = 1
    /\ pc = "count_rounds"
    /\ participant_number = 0
    /\ data = None
    /\ latency_markers_stream = None
    /\ latencies_by_round = <<>>
    /\ exp_markers_stream = None
    /\ blocks_moved_by_round = <<>>
    /\ current_round_blocks = 0
    /\ in_boxblock = FALSE
    /\ marker_idx = 1
    /\ rounds = <<>>
    /\ error = None

\* A whole batch: up to MaxRows rows, any mix of good and bad documents.
InitBatch ==
    /\ all_cols \in {ColumnsWith(4), ColumnsWith(8)}
    /\ questionnaire_df \in DistinctRows(MaxRows)
    /\ files \in {f \in [ParticipantNumbers -> BatchDocuments] :
                    f[4] \in {MissingFile, UnparsableFile, Document(<<>>)}}

\* One participant, every ExpMarkers stream up to MaxMarkers markers.
InitSegmenter ==
    /\ all_cols \in {ColumnsWith(0), ColumnsWith(8)}
    /\ questionnaire_df = <<Row(1)>>
    /\ \E d \in SegmenterDocuments :
          files = [n \in ParticipantNumbers |-> IF n = 1 THEN d ELSE MissingFile]

\* One participant, two streams named ExpMarkers of up to MaxDupMarkers markers.
InitDuplicates ==
    /\ all_cols \in {ColumnsWith(0), ColumnsWith(4)}
    /\ questionnaire_df = <<Row(1)>>
    /\ \E d \in DuplicateDocuments :
          files = [n \in ParticipantNumbers |-> IF n = 1 THEN d ELSE MissingFile]

\* One participant, every LatencyMarkers stream up to MaxLatencyMarkers markers.
InitLatency ==
    /\ all_cols = ColumnsWith(4)
    /\ questionnaire_df = <<Row(1)>>
    /\ \E d \in LatencyDocuments :
          files = [n \in ParticipantNumbers |-> IF n = 1 THEN d ELSE MissingFile]

\* One participant, every number of repeating columns up to MaxRepeatingCols.
InitColumns ==
    /\ all_cols \in {ColumnsWith(n) : n \in 0..MaxRepeatingCols}
    /\ questionnaire_df = <<Row(7)>>
    /\ files = [n \in ParticipantNumbers |->
                  Document(<<Stream("LatencyMarkers", OneLatency),
                             Stream("ExpMarkers", OneRound)>>)]

\* One participant with the documented round-trip document, two rounds.
InitScenario ==
    /\ all_cols = ColumnsWith(8)
    /\ questionnaire_df = <<Row(1)>>
    /\ files = [n \in ParticipantNumbers |-> IF n = 1 THEN ScenarioDocument ELSE MissingFile]

Init ==
    /\ Unbound
    /\ (InitBatch \/ InitSegmenter \/ InitDuplicates \/ InitLatency \/ InitColumns
        \/ InitScenario)

(***************************************************************************)
(* Steps of the notebook.                                                  *)
(***************************************************************************)
\* lines 79-83
CountRounds ==
    /\ pc = "count_rounds"
    /\ num_rounds' = NumRoundsOf(all_cols)
    /\ pc' = "for_row"
    /\ UNCHANGED << inputs, participants, row_idx, participant_number, data,
                    latency_vars, segmenter_vars, marker_idx, rounds, error >>

\* line 90, iterator exhausted: the loop ends
EndOfRows ==
    /\ pc = "for_row"
    /\ row_idx > Len(questionnaire_df)
    /\ pc' = "done"
    /\ UNCHANGED << inputs, num_rounds, participants, row_idx, participant_number,
                    data, latency_vars, segmenter_vars, marker_idx, rounds, error >>

\* lines 90-93, the participant is ignored: continue
SkipIgnored ==
    /\ pc = "for_row"
    /\ row_idx <= Len(questionnaire_df)
    /\ questionnaire_df[row_idx].participant_number \in ignored_participants
    /\ participant_number' = questionnaire_df[row_idx].participant_number
    /\ row_idx' = row_idx + 1
    /\ UNCHANGED << inputs, num_rounds, participants, pc, data, latency_vars,
                    segmenter_vars, marker_idx, rounds, error >>

\* Variant: the row body is entered without the ignore test.
BeginRowUnfiltered ==
    /\ pc = "for_row"
    /\ row_idx <= Len(questionnaire_df)
    /\ participant_number' = questionnaire_df[row_idx].participant_number
    /\ pc' = "load"
    /\ UNCHANGED << inputs, num_rounds, participants, row_idx, data, latency_vars,
                    segmenter_vars, marker_idx, rounds, error >>

\* lines 90-93, the participant is kept
BeginRow ==
    /\ pc = "for_row"
    /\ row_idx <= Len(questionnaire_df)
    /\ questionnaire_df[row_idx].participant_number \notin ignored_participants
    /\ participant_number' = questionnaire_df[row_idx].participant_number
    /\ pc' = "load"
    /\ UNCHANGED << inputs, num_rounds, participants, row_idx, data, latency_vars,
                    segmenter_vars, marker_idx, rounds, error >>

\* lines 95-97
LoadDocument ==
    /\ pc = "load"
    /\ files[participant_number].status = "ok"
    /\ data' = files[participant_number]
    /\ pc' = "find_latency"
    /\ UNCHANGED << inputs, num_rounds, participants, row_idx, participant_number,
                    latency_vars, segmenter_vars, marker_idx, rounds, error >>

\* lines 95-97, the load raises
LoadFails ==
    /\ pc = "load"
    /\ files[participant_number].status # "ok"
    /\ error' = IF files[participant_number].status = "missing"
                THEN Error("FileNotFoundError", "{}", <<participant_number>>)
                ELSE Error("ValueError", "document parse error", <<>>)
    /\ pc' = "error"
    /\ UNCHANGED << inputs, num_rounds, participants, row_idx, participant_number,
                    data, latency_vars, segmenter_vars, marker_idx, rounds >>

\* lines 100-116, the stream is found
FindLatencyMarkers ==
    /\ pc = "find_latency"
    /\ FirstNamed(data.streams, "LatencyMarkers") # None
    /\ latency_markers_stream' = FirstNamed(data.streams, "LatencyMarkers")
    /\ latencies_by_round' = <<>>
    /\ marker_idx' = 1
    /\ pc' = "latency_loop"
    /\ UNCHANGED << inputs, num_rounds, participants, row_idx, participant_number,
                    data, segmenter_vars, rounds, error >>

\* lines 100-112, the stream is missing
LatencyMarkersMissing ==
    /\ pc = "find_latency"
    /\ FirstNamed(data.streams, "LatencyMarkers") = None
    /\ latency_markers_stream' = None
    /\ error' = LatencyMarkersNotFound(participant_number)
    /\ pc' = "error"
    /\ UNCHANGED << inputs, num_rounds, participants, row_idx, participant_number,
                    data, latencies_by_round, segmenter_vars, marker_idx, rounds >>

\* lines 117-124, one marker that does not raise
LatencyMarker ==
    /\ pc = "latency_loop"
    /\ marker_idx <= Len(latency_markers_stream.time_series)
    /\ LET r == ExtractLatency(latency_markers_stream.time_series[marker_idx][1])
       IN  /\ ~r.raised
           /\ latencies_by_round' = IF r.appended
                                    THEN Append(latencies_by_round, r.value)
                                    ELSE latencies_by_round
    /\ marker_idx' = marker_idx + 1
    /\ UNCHANGED << inputs, num_rounds, participants, row_idx, pc, participant_number,
                    data, latency_markers_stream, segmenter_vars, rounds, error >>

\* lines 117-123, int() raises on the third field
LatencyMarkerRaises ==
    /\ pc = "latency_loop"
    /\ marker_idx <= Len(latency_markers_stream.time_series)
    /\ LET r == ExtractLatency(latency_markers_stream.time_series[marker_idx][1])
       IN  /\ r.raised
           /\ error' = Error("ValueError", "invalid literal for int() with base 10: {}",
                             <<r.literal>>)
    /\ pc' = "error"
    /\ UNCHANGED << inputs, num_rounds, participants, row_idx, participant_number,
                    data, latency_vars, segmenter_vars, marker_idx, rounds >>

\* Variant: the segmenter names are bound once and not reset per row.
FindExpMarkersKeepsState ==
    /\ pc = "latency_loop"
    /\ marker_idx > Len(latency_markers_stream.time_series)
    /\ FirstNamed(data.streams, "ExpMarkers") # None
    /\ exp_markers_stream' = FirstNamed(data.streams, "ExpMarkers")
    /\ marker_idx' = 1
    /\ pc' = "segment_loop"
    /\ UNCHANGED << inputs, num_rounds, participants, row_idx, participant_number,
                    data, latency_vars, blocks_moved_by_round, current_round_blocks,
                    in_boxblock, rounds, error >>

\* lines 129-141, after the latency loop: the stream is found
FindExpMarkers ==
    /\ pc = "latency_loop"
    /\ marker_idx > Len(latency_markers_stream.time_series)
    /\ FirstNamed(data.streams, "ExpMarkers") # None
    /\ exp_markers_stream' = FirstNamed(data.streams, "ExpMarkers")
    /\ blocks_moved_by_round' = <<>>
    /\ current_round_blocks' = 0
    /\ in_boxblock' = FALSE
    /\ marker_idx' = 1
    /\ pc' = "segment_loop"
    /\ UNCHANGED << inputs, num_rounds, participants, row_idx, participant_number,
                    data, latency_vars, rounds, error >>

\* Variant: the missing stream is caught per row and the loop continues.
ExpMarkersMissingSkipsRow ==
    /\ pc = "latency_loop"
    /\ marker_idx > Len(latency_markers_stream.time_series)
    /\ FirstNamed(data.streams, "ExpMarkers") = None
    /\ exp_markers_stream' = None
    /\ row_idx' = row_idx + 1
    /\ pc' = "for_row"
    /\ UNCHANGED << inputs, num_rounds, participants, participant_number,
                    data, latency_vars, blocks_moved_by_round, current_round_blocks,
                    in_boxblock, marker_idx, rounds, error >>

\* lines 129-136, after the latency loop: the stream is missing
ExpMarkersMissing ==
    /\ pc = "latency_loop"
    /\ marker_idx > Len(latency_markers_stream.time_series)
    /\ FirstNamed(data.streams, "ExpMarkers") = None
    /\ exp_markers_stream' = None
    /\ error' = ExpMarkersNotFound(participant_number)
    /\ pc' = "error"
    /\ UNCHANGED << inputs, num_rounds, participants, row_idx, participant_number,
                    data, latency_vars, blocks_moved_by_round, current_round_blocks,
                    in_boxblock, marker_idx, rounds >>

\* lines 143-163, one marker
ExpMarker ==
    /\ pc = "segment_loop"
    /\ marker_idx <= Len(exp_markers_stream.time_series)
    /\ LET st == SegmentMarker(SegmenterState(blocks_moved_by_round,
                                              current_round_blocks, in_boxblock),
                               exp_markers_stream.time_series[marker_idx][1])
       IN  /\ blocks_moved_by_round' = st.blocks_moved_by_round
           /\ current_round_blocks' = st.current_round_blocks
           /\ in_boxblock' = st.in_boxblock
    /\ marker_idx' = marker_idx + 1
    /\ UNCHANGED << inputs, num_rounds, participants, row_idx, pc, participant_number,
                    data, latency_vars, exp_markers_stream, rounds, error >>

\* Variant: a session still open at the end of the stream is flushed.
PadFlushesOpenRound ==
    /\ pc = "segment_loop"
    /\ marker_idx > Len(exp_markers_stream.time_series)
    /\ blocks_moved_by_round' =
          PadBlocks(IF in_boxblock
                    THEN Append(blocks_moved_by_round, current_round_blocks)
                    ELSE blocks_moved_by_round, num_rounds)
    /\ pc' = "reconcile"
    /\ UNCHANGED << inputs, num_rounds, participants, row_idx, participant_number,
                    data, latency_vars, exp_markers_stream, current_round_blocks,
                    in_boxblock, marker_idx, rounds, error >>

\* lines 165-167, after the segment loop
Pad ==
    /\ pc = "segment_loop"
    /\ marker_idx > Len(exp_markers_stream.time_series)
    /\ blocks_moved_by_round' = PadBlocks(blocks_moved_by_round, num_rounds)
    /\ pc' = "reconcile"
    /\ UNCHANGED << inputs, num_rounds, participants, row_idx, participant_number,
                    data, latency_vars, exp_markers_stream, current_round_blocks,
                    in_boxblock, marker_idx, rounds, error >>

\* lines 170-189
Reconcile ==
    /\ pc = "reconcile"
    /\ rounds' = BuildRounds(0, num_rounds, latencies_by_round, blocks_moved_by_round)
    /\ pc' = "assemble"
    /\ UNCHANGED << inputs, num_rounds, participants, row_idx, participant_number,
                    data, latency_vars, segmenter_vars, marker_idx, error >>

\* Variant: the record is inserted at the head of the collection.
PrependParticipant ==
    /\ pc = "assemble"
    /\ participants' = <<Participant(participant_number, rounds)>> \o participants
    /\ row_idx' = row_idx + 1
    /\ pc' = "for_row"
    /\ UNCHANGED << inputs, num_rounds, participant_number, data, latency_vars,
                    segmenter_vars, marker_idx, rounds, error >>

\* lines 192-203, and back to the loop head
AppendParticipant ==
    /\ pc = "assemble"
    /\ participants' = Append(participants, Participant(participant_number, rounds))
    /\ row_idx' = row_idx + 1
    /\ pc' = "for_row"
    /\ UNCHANGED << inputs, num_rounds, participant_number, data, latency_vars,
                    segmenter_vars, marker_idx, rounds, error >>

Next ==
    \/ CountRounds
    \/ EndOfRows
    \/ SkipIgnored
    \/ BeginRow
    \/ LoadDocument
    \/ LoadFails
    \/ FindLatencyMarkers
    \/ LatencyMarkersMissing
    \/ LatencyMarker
    \/ LatencyMarkerRaises
    \/ FindExpMarkers
    \/ ExpMarkersMissing
    \/ ExpMarker
    \/ Pad
    \/ Reconcile
    \/ AppendParticipant

Spec == Init /\ [][Next]_vars

TypeOK ==
    /\ pc \in {"count_rounds", "for_row", "load", "find_latency", "latency_loop",
               "segment_loop", "reconcile", "assemble", "done", "error"}
    /\ num_rounds \in Nat
    /\ current_round_blocks \in Nat
    /\ in_boxblock \in BOOLEAN


(***************************************************************************)
(* Vocabulary of the properties.                                           *)
(***************************************************************************)
Tokens(stream) == [k \in DOMAIN stream.time_series |-> stream.time_series[k][1]]

ZerosOf(n) == [k \in 1..n |-> 0]

EndsWith(s, suffix) ==
    /\ Len(s) >= Len(suffix)
    /\ SubSeq(s, Len(s) - Len(suffix) + 1, Len(s)) = suffix

\* The document of the row being processed, and the position of its first
\* stream of a given name (0: none).
CurrentDocument == files[participant_number]

IndexOfFirst(streams, name) ==
    LET named == {k \in 1..Len(streams) : streams[k].info.name = name}
    IN  IF named = {} THEN 0
        ELSE CHOOSE k \in named : \A j \in named : k <= j

HasStream(doc, name) == doc.status = "ok" /\ IndexOfFirst(doc.streams, name) > 0

\* The segmenter run over a whole token sequence.
RECURSIVE SegmentAll(_, _)
SegmentAll(st, tokens) ==
    IF tokens = <<>> THEN st
    ELSE SegmentAll(SegmentMarker(st, tokens[1]), Tail(tokens))

RawSegments(tokens) ==
    SegmentAll(SegmenterState(<<>>, 0, FALSE), tokens).blocks_moved_by_round

\* Properly paired, non-nested sentinels: reading left to right, starts and
\* stops alternate, a start comes first and a stop comes last.
StartPositions(tokens) == {k \in 1..Len(tokens) : tokens[k] \in start_tokens}
StopPositions(tokens) == {k \in 1..Len(tokens) : tokens[k] \in stop_tokens}
Depth(tokens, k) ==
    Cardinality({j \in StartPositions(tokens) : j <= k})
    - Cardinality({j \in StopPositions(tokens) : j <= k})
WellPaired(tokens) ==
    /\ \A k \in 1..Len(tokens) : Depth(tokens, k) \in {0, 1}
    /\ Depth(tokens, Len(tokens)) = 0

NthOf(positions, n) ==
    CHOOSE q \in positions : Cardinality({j \in positions : j <= q}) = n

\* For a well-paired sequence: the number of block_moved tokens strictly
\* between the k-th start and the k-th stop, for each pair k.
PairCounts(tokens) ==
    [k \in 1..Cardinality(StartPositions(tokens)) |->
        Cardinality({j \in 1..Len(tokens) :
                       /\ NthOf(StartPositions(tokens), k) < j
                       /\ j < NthOf(StopPositions(tokens), k)
                       /\ tokens[j] = block_moved})]

SegmentLoopDone ==
    pc = "segment_loop" /\ marker_idx > Len(exp_markers_stream.time_series)

LatencyLoopDone ==
    pc = "latency_loop" /\ marker_idx > Len(latency_markers_stream.time_series)

(***************************************************************************)
(* C1 as stated: for a well-paired ExpMarkers sequence with N pairs and    *)
(* any num_rounds, the sequence the Round Segmenter returns (after its     *)
(* post-processing) is exactly the N per-pair block_moved counts.          *)
(***************************************************************************)
C1_ReturnsExactlyN ==
    (pc = "reconcile" /\ WellPaired(Tokens(exp_markers_stream)))
        => blocks_moved_by_round = PairCounts(Tokens(exp_markers_stream))

(***************************************************************************)
(* C1 amended: for a well-paired ExpMarkers sequence with N pairs, the     *)
(* segment sequence before padding is exactly the N per-pair block_moved   *)
(* counts, and the returned sequence is that followed by                   *)
(* max(0, num_rounds - N) zeros.                                           *)
(***************************************************************************)
C1_PairCountsThenZeros ==
    /\ (SegmentLoopDone /\ WellPaired(Tokens(exp_markers_stream)))
          => /\ blocks_moved_by_round = PairCounts(Tokens(exp_markers_stream))
             /\ ~in_boxblock
    /\ (pc = "reconcile" /\ WellPaired(Tokens(exp_markers_stream)))
          => LET counts == PairCounts(Tokens(exp_markers_stream))
             IN  blocks_moved_by_round =
                   counts \o ZerosOf(Max(0, num_rounds - Len(counts)))

C1_Witness ==
    /\ pc = "reconcile"
    /\ WellPaired(Tokens(exp_markers_stream))
    /\ Len(PairCounts(Tokens(exp_markers_stream))) = 1
    /\ PairCounts(Tokens(exp_markers_stream))[1] = 2
    /\ num_rounds = 2
    /\ blocks_moved_by_round = <<2, 0>>

C1_WitnessEmptyPair ==
    /\ SegmentLoopDone
    /\ Tokens(exp_markers_stream) = <<practice_boxblock_start, boxblock_end,
                                       boxblock_start, boxblock_stop>>
    /\ blocks_moved_by_round = <<0, 0>>

(***************************************************************************)
(* C2 as stated: a marker that starts with condition_advance| but has      *)
(* fewer than 3 fields, or whose third field lacks the ms suffix, appends  *)
(* nothing and raises nothing; the loop goes on to the next marker.        *)
(***************************************************************************)
Malformed(token) ==
    /\ StartsWith(token, condition_advance_bar)
    /\ \/ Len(Split(token, "|")) < 3
       \/ ~EndsWith(Split(token, "|")[3], ms)

C2_MalformedSkipped ==
    [][(/\ pc = "latency_loop"
        /\ marker_idx <= Len(latency_markers_stream.time_series)
        /\ Malformed(Tokens(latency_markers_stream)[marker_idx]))
         => /\ latencies_by_round' = latencies_by_round
            /\ pc' = "latency_loop"
            /\ marker_idx' = marker_idx + 1]_vars

(***************************************************************************)
(* C3 as stated: the extractor's output is exactly the integers of the     *)
(* markers of the form condition_advance|X|<int>ms|Y, in stream order; no  *)
(* other marker contributes an entry.                                      *)
(***************************************************************************)
IsIntLiteral(s) ==
    LET body == IF s # <<>> /\ s[1] \in {"+", "-"} THEN Tail(s) ELSE s
    IN  body # <<>> /\ \A k \in 1..Len(body) : body[k] \in Digits

DurationOf(token) ==
    LET field == Split(token, "|")[3]
    IN  SubSeq(field, 1, Len(field) - Len(ms))

OfTheForm(token) ==
    /\ StartsWith(token, condition_advance_bar)
    /\ Len(Split(token, "|")) >= 4
    /\ EndsWith(Split(token, "|")[3], ms)
    /\ IsIntLiteral(DurationOf(token))

RECURSIVE FormLatencies(_)
FormLatencies(tokens) ==
    IF tokens = <<>> THEN <<>>
    ELSE IF OfTheForm(tokens[1])
         THEN <<ParseInt(DurationOf(tokens[1])).value>> \o FormLatencies(Tail(tokens))
         ELSE FormLatencies(Tail(tokens))

C3_ExactlyTheFormMarkers ==
    LatencyLoopDone => latencies_by_round = FormLatencies(Tokens(latency_markers_stream))

(***************************************************************************)
(* C4: padding takes a segment sequence of length raw to length            *)
(* max(raw, num_rounds): it keeps the raw entries, appends only zeros, and *)
(* never trims.                                                            *)
(***************************************************************************)
C4_PadLength ==
    [][(pc = "segment_loop" /\ pc' = "reconcile")
         => /\ Len(blocks_moved_by_round') = Max(Len(blocks_moved_by_round), num_rounds)
            /\ SubSeq(blocks_moved_by_round', 1, Len(blocks_moved_by_round))
                 = blocks_moved_by_round
            /\ \A k \in (Len(blocks_moved_by_round) + 1)..Len(blocks_moved_by_round') :
                  blocks_moved_by_round'[k] = 0]_vars

C4_Witness ==
    /\ pc = "reconcile"
    /\ Len(RawSegments(Tokens(exp_markers_stream))) = 1
    /\ num_rounds = 2
    /\ blocks_moved_by_round = <<1, 0>>

C4_WitnessNotTrimmed ==
    /\ pc = "reconcile"
    /\ num_rounds = 0
    /\ blocks_moved_by_round = <<1, 0>>

(***************************************************************************)
(* C5: the reconciler produces num_rounds records numbered 1..num_rounds;  *)
(* record i takes the i-th latency and the i-th segment count where they   *)
(* exist and 0 where they do not; longer sequences are no error.           *)
(***************************************************************************)
C5_Reconciled ==
    pc = "assemble" =>
          /\ Len(rounds) = num_rounds
          /\ \A n \in 1..num_rounds :
                /\ rounds[n].round_number = n
                /\ rounds[n].latency_applied =
                      (IF n <= Len(latencies_by_round) THEN latencies_by_round[n] ELSE 0)
                /\ rounds[n].blocks_moved =
                      (IF n <= Len(blocks_moved_by_round) THEN blocks_moved_by_round[n] ELSE 0)

C5_Witness ==
    /\ pc = "assemble"
    /\ num_rounds = 1
    /\ Len(latencies_by_round) = 2
    /\ Len(blocks_moved_by_round) = 1
    /\ rounds = <<[round_number |-> 1, latency_applied |-> latencies_by_round[1],
                   blocks_moved |-> 1]>>

C5_WitnessLatencyAbsent ==
    /\ pc = "assemble"
    /\ num_rounds = 3
    /\ Len(latencies_by_round) = 1
    /\ rounds[3].latency_applied = 0


(***************************************************************************)
(* C6: with several streams named ExpMarkers, the segmenter reads the      *)
(* first one in document order and nothing else: its result is the result  *)
(* for that first stream alone.                                            *)
(***************************************************************************)
FirstExpMarkers ==
    CurrentDocument.streams[IndexOfFirst(CurrentDocument.streams, "ExpMarkers")]

C6_FirstExpMarkersOnly ==
    /\ pc \in {"segment_loop", "reconcile"} => exp_markers_stream = FirstExpMarkers
    /\ SegmentLoopDone => blocks_moved_by_round = RawSegments(Tokens(FirstExpMarkers))
    /\ pc = "reconcile" =>
          blocks_moved_by_round = PadBlocks(RawSegments(Tokens(FirstExpMarkers)), num_rounds)

C6_Witness ==
    /\ pc = "reconcile"
    /\ Cardinality({k \in 1..Len(CurrentDocument.streams) :
                      CurrentDocument.streams[k].info.name = "ExpMarkers"}) = 2
    /\ \E k \in 1..Len(CurrentDocument.streams) :
          /\ CurrentDocument.streams[k].info.name = "ExpMarkers"
          /\ RawSegments(Tokens(CurrentDocument.streams[k])) = <<0>>
    /\ blocks_moved_by_round = <<1>>

(***************************************************************************)
(* C7: an ignored participant is never in the output, and its row is       *)
(* dropped before anything is loaded: no step of the row body, and no      *)
(* error, ever belongs to an ignored participant.                          *)
(***************************************************************************)
C7_IgnoredNeverProcessed ==
    /\ \A k \in 1..Len(participants) :
          participants[k].participant_number \notin ignored_participants
    /\ pc \in {"load", "find_latency", "latency_loop", "segment_loop", "reconcile",
               "assemble", "error"}
          => participant_number \notin ignored_participants

C7_Witness ==
    /\ pc = "done"
    /\ Len(questionnaire_df) = 2
    /\ questionnaire_df[1].participant_number \in ignored_participants
    /\ files[questionnaire_df[1].participant_number].status # "ok"
    /\ Len(participants) = 1

(***************************************************************************)
(* C8: a kept participant whose document lacks LatencyMarkers or           *)
(* ExpMarkers stops the run: the row index never passes such a row, no     *)
(* record of such a participant is in the output, and nothing happens      *)
(* after the error.                                                        *)
(***************************************************************************)
LacksRequiredStream(number) ==
    /\ files[number].status = "ok"
    /\ \/ ~HasStream(files[number], "LatencyMarkers")
       \/ ~HasStream(files[number], "ExpMarkers")

C8_MissingStreamAborts ==
    /\ [](/\ \A k \in 1..Len(participants) :
               ~LacksRequiredStream(participants[k].participant_number)
          /\ \A j \in 1..(row_idx - 1) :
               questionnaire_df[j].participant_number \notin ignored_participants
                  => ~LacksRequiredStream(questionnaire_df[j].participant_number)
          /\ (pc \in {"reconcile", "assemble"}) => ~LacksRequiredStream(participant_number))
    /\ [][pc # "error"]_vars

C8_Witness ==
    /\ pc = "error"
    /\ error.text = "No ExpMarkers stream found"
    /\ Len(questionnaire_df) = 2
    /\ row_idx = 1
    /\ participants = <<>>
    /\ ~LacksRequiredStream(questionnaire_df[2].participant_number)

C8_WitnessLatency ==
    /\ pc = "error"
    /\ error = LatencyMarkersNotFound(participant_number)
    /\ row_idx = 2
    /\ Len(participants) = 1

(***************************************************************************)
(* C9 as stated: every missing-stream error carries the participant number *)
(* of the failing row and names the failing stage (the stream looked up).  *)
(***************************************************************************)
MissingStreamError ==
    /\ pc = "error"
    /\ error.type = "ValueError"
    /\ error.text \in {"LatencyMarkers stream not found for participant {}",
                       "No ExpMarkers stream found"}

C9_ErrorNamesParticipant ==
    MissingStreamError => \E k \in DOMAIN error.args : error.args[k] = participant_number

(***************************************************************************)
(* C10 as stated: num_rounds is the exact quotient of the number of        *)
(* non-static columns by 4: 12 repeating columns give 3, and a count that  *)
(* is not a multiple of 4 never becomes a round count.                     *)
(***************************************************************************)
C10_WholeRounds ==
    pc # "count_rounds" =>
        /\ Len(repeating_cols_of(all_cols)) = 12 => num_rounds = 3
        /\ 4 * num_rounds = Len(repeating_cols_of(all_cols))

(***************************************************************************)
(* C11: the documented round trip (num_rounds = 2) reconciles to the       *)
(* rounds (1, 200, 2) and (2, 0, 0); in general round i takes the i-th     *)
(* extracted latency and the i-th completed segment count of the           *)
(* participant's own streams.                                              *)
(***************************************************************************)
FirstLatencyMarkers ==
    CurrentDocument.streams[IndexOfFirst(CurrentDocument.streams, "LatencyMarkers")]

C11_RoundTrip ==
    pc = "assemble" =>
        /\ (CurrentDocument = ScenarioDocument /\ num_rounds = 2) =>
              rounds = << [round_number |-> 1, latency_applied |-> 200, blocks_moved |-> 2],
                          [round_number |-> 2, latency_applied |-> 0, blocks_moved |-> 0] >>
        /\ \A n \in 1..num_rounds :
              /\ n <= Len(latencies_by_round) =>
                    rounds[n].latency_applied = latencies_by_round[n]
              /\ n <= Len(RawSegments(Tokens(FirstExpMarkers))) =>
                    rounds[n].blocks_moved = RawSegments(Tokens(FirstExpMarkers))[n]

C11_Witness ==
    /\ pc = "assemble"
    /\ CurrentDocument = ScenarioDocument
    /\ num_rounds = 2
    /\ latencies_by_round = <<200, 0>>
    /\ blocks_moved_by_round = <<2, 0>>
    /\ Len(rounds) = 2

(***************************************************************************)
(* C12: a batch that completes holds one record per kept row, in row       *)
(* order; the collection only ever grows by one record at its end.         *)
(***************************************************************************)
Kept(row) == row.participant_number \notin ignored_participants

C12_OneRecordPerKeptRow ==
    /\ [](pc = "done" =>
            [k \in 1..Len(participants) |-> participants[k].participant_number]
              = [k \in 1..Len(SelectSeq(questionnaire_df, Kept)) |->
                   SelectSeq(questionnaire_df, Kept)[k].participant_number])
    /\ [][\/ participants' = participants
          \/ /\ Len(participants') = Len(participants) + 1
             /\ SubSeq(participants', 1, Len(participants)) = participants]_vars

C12_Witness ==
    /\ pc = "done"
    /\ Len(questionnaire_df) = 2
    /\ Len(participants) = 2
    /\ participants[1].participant_number = 7
    /\ participants[2].participant_number = 1

(***************************************************************************)
(* C13: nothing is carried from one participant to the next: both loops    *)
(* start from freshly bound names, and every record's rounds are those     *)
(* computed from that participant's own document and num_rounds alone.     *)
(***************************************************************************)
RECURSIVE LatenciesOf(_)
LatenciesOf(tokens) ==
    IF tokens = <<>> THEN <<>>
    ELSE IF ExtractLatency(tokens[1]).appended
         THEN <<ExtractLatency(tokens[1]).value>> \o LatenciesOf(Tail(tokens))
         ELSE LatenciesOf(Tail(tokens))

RoundsFor(doc, n) ==
    BuildRounds(0, n,
                LatenciesOf(Tokens(doc.streams[IndexOfFirst(doc.streams, "LatencyMarkers")])),
                PadBlocks(RawSegments(Tokens(doc.streams[IndexOfFirst(doc.streams, "ExpMarkers")])), n))

EndsInside(doc) ==
    SegmentAll(SegmenterState(<<>>, 0, FALSE),
               Tokens(doc.streams[IndexOfFirst(doc.streams, "ExpMarkers")])).in_boxblock

C13_NoCarryOver ==
    /\ \A k \in 1..Len(participants) :
          participants[k].rounds
            = RoundsFor(files[participants[k].participant_number], num_rounds)
    /\ (pc = "latency_loop" /\ marker_idx = 1) => latencies_by_round = <<>>
    /\ (pc = "segment_loop" /\ marker_idx = 1) =>
          /\ blocks_moved_by_round = <<>>
          /\ current_round_blocks = 0
          /\ ~in_boxblock

C13_Witness ==
    /\ pc = "done"
    /\ Len(participants) = 2
    /\ EndsInside(files[participants[1].participant_number])
    /\ num_rounds = 2
    /\ participants[2].rounds[1].blocks_moved = 1
    /\ participants[2].rounds[1].latency_applied = 200
    /\ participants[2].rounds[2].blocks_moved = 0

(***************************************************************************)
(* C14: block_moved while Outside, a stop token while Outside, and a token *)
(* outside the vocabulary in either state change neither the flag, the     *)
(* running count nor the completed segments.                               *)
(***************************************************************************)
AtMarker == pc = "segment_loop" /\ marker_idx <= Len(exp_markers_stream.time_series)
CurrentToken == exp_markers_stream.time_series[marker_idx][1]
Consumed == SubSeq(Tokens(exp_markers_stream), 1, marker_idx - 1)

C14_NoOps ==
    [][(/\ AtMarker
        /\ \/ CurrentToken = block_moved /\ ~in_boxblock
           \/ CurrentToken \in stop_tokens /\ ~in_boxblock
           \/ CurrentToken \notin start_tokens \cup stop_tokens \cup {block_moved})
         => UNCHANGED << blocks_moved_by_round, current_round_blocks, in_boxblock >>]_vars

C14_Witness ==
    /\ pc = "segment_loop"
    /\ Consumed = <<block_moved, boxblock_stop, recording_started>>
    /\ ~in_boxblock
    /\ current_round_blocks = 0
    /\ blocks_moved_by_round = <<>>

C14_WitnessInside ==
    /\ pc = "segment_loop"
    /\ Consumed = <<boxblock_start, block_moved, recording_started>>
    /\ in_boxblock
    /\ current_round_blocks = 1
    /\ blocks_moved_by_round = <<>>

C15_WitnessFlush ==
    /\ pc = "segment_loop"
    /\ Consumed = <<practice_boxblock_start, block_moved, boxblock_start>>
    /\ in_boxblock
    /\ current_round_blocks = 0
    /\ blocks_moved_by_round = <<1>>

(***************************************************************************)
(* C16: when the stream ends while Inside(count), count is not appended:   *)
(* the step after the loop only pads with zeros, and the dropped count is  *)
(* in no segment.                                                          *)
(***************************************************************************)
RECURSIVE SumSeq(_)
SumSeq(s) == IF s = <<>> THEN 0 ELSE s[1] + SumSeq(Tail(s))

CountOf(tokens, token) == Cardinality({k \in 1..Len(tokens) : tokens[k] = token})

C16_OpenRoundDropped ==
    /\ [][(pc = "segment_loop" /\ pc' = "reconcile" /\ in_boxblock)
            => blocks_moved_by_round' =
                 blocks_moved_by_round
                   \o ZerosOf(Max(0, num_rounds - Len(blocks_moved_by_round)))]_vars
    /\ []((pc = "reconcile" /\ in_boxblock)
            => SumSeq(blocks_moved_by_round) + current_round_blocks
                 <= CountOf(Tokens(exp_markers_stream), block_moved))

C16_Witness ==
    /\ pc = "reconcile"
    /\ in_boxblock
    /\ current_round_blocks = 1
    /\ Tokens(exp_markers_stream) = <<boxblock_start, boxblock_stop, boxblock_start, block_moved>>
    /\ num_rounds = 2
    /\ blocks_moved_by_round = <<0, 0>>

(***************************************************************************)
(* C17: after any prefix, the flushed segment values plus the running      *)
(* count are at most the number of block_moved tokens consumed.            *)
(***************************************************************************)
C17_Conservation ==
    pc = "segment_loop" =>
        SumSeq(blocks_moved_by_round) + current_round_blocks
          <= CountOf(Consumed, block_moved)

C17_Witness ==
    /\ pc = "segment_loop"
    /\ Consumed = <<boxblock_start, block_moved, boxblock_start, block_moved>>
    /\ blocks_moved_by_round = <<1>>
    /\ current_round_blocks = 1

(***************************************************************************)
(* C18: after any prefix, the completed segments are at most as many as    *)
(* the start tokens consumed, and a segment is flushed only from Inside.   *)
(***************************************************************************)
C18_SegmentsBoundedByStarts ==
    /\ [](pc = "segment_loop" =>
            Len(blocks_moved_by_round) <= Cardinality(StartPositions(Consumed)))
    /\ [][(AtMarker /\ pc' = "segment_loop"
            /\ blocks_moved_by_round' # blocks_moved_by_round) => in_boxblock]_vars

C18_Witness ==
    /\ pc = "segment_loop"
    /\ Consumed = <<boxblock_start, boxblock_start, boxblock_stop, boxblock_stop>>
    /\ blocks_moved_by_round = <<0, 0>>
    /\ ~in_boxblock

(***************************************************************************)
(* C19: the running count is never negative, and it is 0 whenever the      *)
(* segmenter is Outside.                                                   *)
(***************************************************************************)
C19_OutsideCountZero ==
    /\ current_round_blocks >= 0
    /\ ~in_boxblock => current_round_blocks = 0

C19_Witness ==
    /\ pc = "segment_loop"
    /\ Consumed = <<boxblock_start, block_moved, block_moved, boxblock_stop>>
    /\ ~in_boxblock
    /\ current_round_blocks = 0
    /\ blocks_moved_by_round = <<2>>

====
